---- MODULE Spec2Model ----
(***************************************************************************)
(* A model of the Reversi engine of reversi-rust: the board, the capture   *)
(* engine (Board::move_validity / Board::add_piece), the game status, the  *)
(* notation of fields (to_string / from_str), the minimax bot and the loop *)
(* of play.rs that runs a game between two players.                        *)
(*                                                                         *)
(* A Field is a pair <<x, y>> of naturals (usize).  A cell holds "None",   *)
(* "White" or "Black" (Option<Color>).  A Board is the 8x8 array, indexed  *)
(* first by y and then by x exactly as impl Index<Field> for Board does;   *)
(* reading it outside 0..7 is an evaluation error, as it is a panic in the *)
(* program.  An Option<T> is a sequence of length 0 (None) or 1 (Some).    *)
(* A Result is a record [tag, val, err].                                   *)
(***************************************************************************)
EXTENDS Integers, Sequences, FiniteSets, TLC

VARIABLES board, prev, op, args, ret, game

vars == <<board, prev, op, args, ret, game>>

----------------------------------------------------------------------------
(* Program constants *)

\* side length of the board, [[Option<Color>; 8]; 8]
N == 8

I32Max == 2147483647

I32Min == (-I32Max) - 1

(* Bounds of the model *)

\* generating actions stop once the board holds this many pieces
MaxPieces == 6

\* components of the fields handed to the operations range over 0..MaxCoord
MaxCoord == 8

\* minimax is called with depths that keep the boards it searches within this
\* many pieces: on a board of p pieces, with a depth of 0..(MaxHorizon - p)
MaxHorizon == 7

\* the boards minimax is called on hold at most this many pieces
BotMaxPieces == 5

\* the strings handed to Field::from_str hold at most this many characters
MaxLen == 3

\* play from Board::new() by add_piece alone stops at this many pieces
PlayMaxPieces == 7

\* in a game a human enters any field while fewer than this many pieces have
\* been placed, and afterwards the first legal move
FreeMoves == 2

\* the bot of a game searches to a depth of 1..GameDepth
GameDepth == 1

----------------------------------------------------------------------------
(* reversi.rs: Color *)

Colors == {"White", "Black"}

other(color) == IF color = "Black" THEN "White" ELSE "Black"

None == <<>>

Some(v) == <<v>>

Ok(v) == [tag |-> "Ok", val |-> v, err |-> "None"]

Err(e) == [tag |-> "Err", val |-> <<>>, err |-> e]

\* a failed assert!: the call does not return
Panic(msg) == [tag |-> "Panic", val |-> <<>>, err |-> msg]

----------------------------------------------------------------------------
(* board.rs: Field *)

in_bounds(field) == field[1] < N /\ field[2] < N

\* Field::all(): x outer, y inner
FieldAll == [i \in 1..(N * N) |-> <<(i - 1) \div N, (i - 1) % N>>]

Fields == {FieldAll[i] : i \in 1..(N * N)}

\* `as i8` of a usize
AsI8(n) == IF n % 256 < 128 THEN n % 256 ELSE (n % 256) - 256

Deltas == <<-1, 0, 1>>

\* the body of the two loops of Field::neighbors for one (delta_x, delta_y):
\* the neighbour pushed, if any
neighbor_step(field, dx, dy) ==
    LET x == AsI8(field[1]) + dx
        y == AsI8(field[2]) + dy
    IN  IF x >= 0 /\ y >= 0 /\ in_bounds(<<x, y>>) THEN <<(<<x, y>>)>> ELSE <<>>

neighbors(field) ==
    LET row(i) == neighbor_step(field, Deltas[i], Deltas[1])
                  \o neighbor_step(field, Deltas[i], Deltas[2])
                  \o neighbor_step(field, Deltas[i], Deltas[3])
    IN  row(1) \o row(2) \o row(3)

\* the elements of a Vec or the characters of a String
ToSet(s) == {s[i] : i \in 1..Len(s)}

\* 'a'..='h'
Letters == <<"a", "b", "c", "d", "e", "f", "g", "h">>

\* the characters char::to_digit(10) accepts, each at its value plus one
Digits == <<"0", "1", "2", "3", "4", "5", "6", "7", "8", "9">>

\* Iterator::position: the index of the first element equal to c, if any
position(seq, c) ==
    IF \E i \in 1..Len(seq) : seq[i] = c
    THEN Some((CHOOSE i \in 1..Len(seq) :
                  seq[i] = c /\ \A j \in 1..(i - 1) : seq[j] # c) - 1)
    ELSE None

\* char::to_digit(10)
to_digit(c) == position(Digits, c)

\* usize::to_string: the decimal digits of n, a String being the sequence of
\* its characters
RECURSIVE usize_to_string(_)
usize_to_string(n) ==
    IF n < 10 THEN <<Digits[n + 1]>>
    ELSE usize_to_string(n \div 10) \o <<Digits[(n % 10) + 1]>>

\* to_string writing the row as y + 1, counted from the top
to_string_from_top(field) ==
    IF ~in_bounds(field) THEN Panic("assertion failed: self.in_bounds()")
    ELSE Ok(<<Letters[field[1] + 1]>> \o usize_to_string(field[2] + 1))

\* impl ToString for Field; Ok holds the String returned
to_string(field) ==
    IF ~in_bounds(field) THEN Panic("assertion failed: self.in_bounds()")
    ELSE Ok(<<Letters[field[1] + 1]>> \o usize_to_string(N - field[2]))

\* impl FromStr for Field
from_str(s) ==
    IF Len(s) = 0 THEN Err("InvalidLength")
    ELSE IF Len(s) = 1 THEN Err("InvalidLength")
    ELSE IF to_digit(s[2]) = None THEN Err("InvalidNumber")
    ELSE LET x == s[1]
             y == to_digit(s[2])[1]
         IN  IF Len(s) > 2 THEN Err("InvalidLength")
             ELSE IF position(Letters, x) = None THEN Err("OutOfBounds")
             ELSE IF y > 8 THEN Err("OutOfBounds")
             ELSE Ok(<<position(Letters, x)[1], 8 - y>>)

----------------------------------------------------------------------------
(* board.rs: Board *)

\* impl Index<Field> for Board: &self.0[field.1][field.0]
At(b, field) == b[field[2]][field[1]]

\* impl IndexMut<Field> for Board, used as  board[field] = value
Put(b, field, value) ==
    [b EXCEPT ![field[2]] = [@ EXCEPT ![field[1]] = value]]

empty == [y \in 0..(N - 1) |-> [x \in 0..(N - 1) |-> "None"]]

new ==
    [y \in 0..(N - 1) |-> [x \in 0..(N - 1) |->
        IF x \in 3..4 /\ y \in 3..4
        THEN (IF (x + y) % 2 = 0 THEN "White" ELSE "Black")
        ELSE "None"]]

\* flip taking the piece off the board
flip_clears(b, field) == Put(b, field, "None")

flip(b, field) ==
    Put(b, field, IF At(b, field) = "None" THEN "None" ELSE other(At(b, field)))

count_pieces(b, color) == Cardinality({f \in Fields : At(b, f) = color})

Occupied(b) == Cardinality({f \in Fields : At(b, f) # "None"})

turn(b) == IF Occupied(b) % 2 = 0 THEN "White" ELSE "Black"

final_status(b) ==
    LET w == count_pieces(b, "White")
        k == count_pieces(b, "Black")
    IN  IF w < k THEN "WinBlack" ELSE IF w > k THEN "WinWhite" ELSE "Draw"

Min(a, b) == IF a < b THEN a ELSE b

Max(a, b) == IF a > b THEN a ELSE b

AbsDiff(a, b) == IF a > b THEN a - b ELSE b - a

\* lo..=hi as a sequence
Range(lo, hi) == [i \in 1..(hi - lo + 1) |-> lo + i - 1]

Rev(s) == [i \in 1..Len(s) |-> s[Len(s) + 1 - i]]

\* Iterator::zip: as long as the shorter of the two
Zip(s, t) == [i \in 1..Min(Len(s), Len(t)) |-> <<s[i], t[i]>>]

\* line_closed with the '/' diagonal zipped like the '\' diagonal
line_closed_no_rev(f1, f2) ==
    LET x1 == f1[1]
        y1 == f1[2]
        x2 == f2[1]
        y2 == f2[2]
        range_x == Range(Min(x1, x2), Max(x2, x1))
        range_y == Range(Min(y1, y2), Max(y2, y1))
    IN  IF x1 = x2
        THEN Some([i \in 1..Len(range_y) |-> <<x1, range_y[i]>>])
        ELSE IF y1 = y2
        THEN Some([i \in 1..Len(range_x) |-> <<range_x[i], y1>>])
        ELSE IF AbsDiff(x1, x2) = AbsDiff(y1, y2)
        THEN Some(Zip(range_x, range_y))
        ELSE None

\* the closed line of line_between, before the length test and the slice
line_closed(f1, f2) ==
    LET x1 == f1[1]
        y1 == f1[2]
        x2 == f2[1]
        y2 == f2[2]
        range_x == Range(Min(x1, x2), Max(x2, x1))
        range_y == Range(Min(y1, y2), Max(y2, y1))
    IN  IF x1 = x2
        THEN Some([i \in 1..Len(range_y) |-> <<x1, range_y[i]>>])
        ELSE IF y1 = y2
        THEN Some([i \in 1..Len(range_x) |-> <<range_x[i], y1>>])
        ELSE IF AbsDiff(x1, x2) = AbsDiff(y1, y2)
        THEN IF (x1 > x2 /\ y1 > y2) \/ (x1 < x2 /\ y1 < y2)
             THEN Some(Zip(range_x, range_y))
             ELSE Some(Zip(range_x, Rev(range_y)))
        ELSE None

\* Board::line_between: the fields strictly between the two, or None
line_between(f1, f2) ==
    LET closed == line_closed(f1, f2)
    IN  IF closed = None \/ Len(closed[1]) < 3
        THEN None
        ELSE Some(SubSeq(closed[1], 2, Len(closed[1]) - 1))

\* line_between and neighbors of every pair of fields and every field of the
\* grid, evaluated once
line_between_of == [p \in Fields \X Fields |-> line_between(p[1], p[2])]

neighbors_of == [f \in Fields |-> neighbors(f)]

RECURSIVE Flatten(_)
Flatten(ss) == IF ss = <<>> THEN <<>> ELSE Head(ss) \o Flatten(Tail(ss))

\* captured_pieces keeping the lines whose every field holds a piece of any
\* color
captured_pieces_any_run(b, field, color) ==
    LET same     == SelectSeq(FieldAll, LAMBDA o : At(b, o) = color)
        lines    == Flatten([i \in 1..Len(same) |-> line_between_of[<<field, same[i]>>]])
        solid(l) == \A i \in 1..Len(l) : At(b, l[i]) # "None"
    IN  Flatten(SelectSeq(lines, solid))

\* the filter / filter_map / filter / flatten chain of move_validity
captured_pieces(b, field, color) ==
    LET same     == SelectSeq(FieldAll, LAMBDA o : At(b, o) = color)
        lines    == Flatten([i \in 1..Len(same) |-> line_between_of[<<field, same[i]>>]])
        solid(l) == \A i \in 1..Len(l) : At(b, l[i]) = other(color)
    IN  Flatten(SelectSeq(lines, solid))

\* the assertion "Captured pieces are not unique" of move_validity holds
unique(captured) ==
    \A i \in 1..Len(captured) :
        Cardinality({j \in 1..Len(captured) : captured[j] = captured[i]}) = 1

\* move_validity without the test of the target cell
move_validity_no_occupied(b, field, color) ==
    IF ~in_bounds(field) THEN Err("OutOfBounds")
    ELSE IF LET around == neighbors_of[field]
            IN  \A i \in 1..Len(around) : At(b, around[i]) = "None"
    THEN Err("CapturesNone")
    ELSE LET captured == captured_pieces(b, field, color)
         IN  IF captured = <<>> THEN Err("CapturesNone")
             ELSE IF ~unique(captured) THEN Panic("Captured pieces are not unique")
             ELSE Ok(captured)

move_validity(b, field, color) ==
    IF ~in_bounds(field) THEN Err("OutOfBounds")
    ELSE IF At(b, field) # "None" THEN Err("Occupied")
    ELSE IF LET around == neighbors_of[field]
            IN  \A i \in 1..Len(around) : At(b, around[i]) = "None"
    THEN Err("CapturesNone")
    ELSE LET captured == captured_pieces(b, field, color)
         IN  IF captured = <<>> THEN Err("CapturesNone")
             ELSE IF ~unique(captured) THEN Panic("Captured pieces are not unique")
             ELSE Ok(captured)

is_valid(b, field, color) == move_validity(b, field, color).tag = "Ok"

\* valid_moves enumerating the fields row by row (y outer, x inner)
valid_moves_y_outer(b, color) ==
    SelectSeq([i \in 1..(N * N) |-> <<(i - 1) % N, (i - 1) \div N>>],
              LAMBDA f : move_validity(b, f, color).tag = "Ok")

valid_moves(b, color) ==
    SelectSeq(FieldAll, LAMBDA f : move_validity(b, f, color).tag = "Ok")

\* status without the test that neither color can move
status_no_double_pass(b) ==
    IF ~(\A i \in 1..Len(FieldAll) : At(b, FieldAll[i]) # "None")
    THEN IF count_pieces(b, "White") = 0 THEN "WinBlack"
         ELSE IF count_pieces(b, "Black") = 0 THEN "WinWhite"
         ELSE "InProgress"
    ELSE final_status(b)

\* status with the two arms of the match on the counts in the other order
status_black_first(b) ==
    IF ~(\A i \in 1..Len(FieldAll) : At(b, FieldAll[i]) # "None")
    THEN IF count_pieces(b, "Black") = 0 THEN "WinWhite"
         ELSE IF count_pieces(b, "White") = 0 THEN "WinBlack"
         ELSE IF valid_moves(b, "White") = <<>> /\ valid_moves(b, "Black") = <<>>
              THEN final_status(b)
              ELSE "InProgress"
    ELSE final_status(b)

status(b) ==
    IF ~(\A i \in 1..Len(FieldAll) : At(b, FieldAll[i]) # "None")
    THEN IF count_pieces(b, "White") = 0 THEN "WinBlack"
         ELSE IF count_pieces(b, "Black") = 0 THEN "WinWhite"
         ELSE IF valid_moves(b, "White") = <<>> /\ valid_moves(b, "Black") = <<>>
              THEN final_status(b)
              ELSE "InProgress"
    ELSE final_status(b)

add_piece_unchecked(b, field, color) == Put(b, field, color)

\* the loop over the captured pieces stopping one piece early
RECURSIVE FlipAll_skip_last(_, _)
FlipAll_skip_last(b, captured) ==
    IF Len(captured) <= 1 THEN b
    ELSE FlipAll_skip_last(flip(b, Head(captured)), Tail(captured))

\* the loop  for &captured_piece in &captured_pieces { self.flip(..) }
RECURSIVE FlipAll(_, _)
FlipAll(b, captured) ==
    IF captured = <<>> THEN b ELSE FlipAll(flip(b, Head(captured)), Tail(captured))

\* add_piece placing the piece before it asks move_validity
add_piece_place_first(b, field, color) ==
    LET validity == move_validity(b, field, color)
        placed   == IF in_bounds(field) THEN add_piece_unchecked(b, field, color) ELSE b
    IN  IF validity.tag # "Ok"
        THEN [res |-> validity, board |-> placed]
        ELSE [res |-> validity, board |-> FlipAll(placed, validity.val)]

\* Board::add_piece: the result and the board afterwards
add_piece(b, field, color) ==
    LET validity == move_validity(b, field, color)
    IN  IF validity.tag # "Ok"
        THEN [res |-> validity, board |-> b]
        ELSE [res   |-> validity,
              board |-> FlipAll(add_piece_unchecked(b, field, color), validity.val)]

----------------------------------------------------------------------------
(* minimax_bot.rs.  A MinimaxBot is [color, depth]; what minimax returns is *)
(* [field, value, panicked]: the pair (Option<Field>, i32), or a panic of   *)
(* the unwrap of add_piece.                                                 *)

Strategies == {"Minimize", "Maximize"}

strategy_other(strategy) == IF strategy = "Minimize" THEN "Maximize" ELSE "Minimize"

\* worst_value with the two values exchanged
worst_value_swapped(strategy) == IF strategy = "Minimize" THEN I32Min ELSE I32Max

worst_value(strategy) == IF strategy = "Minimize" THEN I32Max ELSE I32Min

\* the strategies of the two colors exchanged
strategy_from_swapped(color) == IF color = "White" THEN "Minimize" ELSE "Maximize"

\* impl From<Color> for MinimaxStrategy
strategy_from(color) == IF color = "White" THEN "Maximize" ELSE "Minimize"

\* impl From<MinimaxStrategy> for Color
color_from(strategy) == IF strategy = "Minimize" THEN "Black" ELSE "White"

MinimaxBot(color, depth) == [color |-> color, depth |-> depth]

\* eval as an earlier MinimaxBot has it: a win is scored for the bot's color
eval_of_player(self, b) ==
    LET st == status(b)
    IN  IF st \in {"WinWhite", "WinBlack"}
        THEN (IF st = (IF self.color = "White" THEN "WinWhite" ELSE "WinBlack")
              THEN I32Max ELSE I32Min)
        ELSE IF st = "Draw" THEN 0
        ELSE count_pieces(b, "White") - count_pieces(b, "Black")

eval(self, b) ==
    LET st == status(b)
    IN  IF st = "WinWhite" THEN I32Max
        ELSE IF st = "WinBlack" THEN I32Min
        ELSE IF st = "Draw" THEN 0
        ELSE count_pieces(b, "White") - count_pieces(b, "Black")

Choice(field, value) == [field |-> field, value |-> value, panicked |-> FALSE]

Panicked == [field |-> None, value |-> 0, panicked |-> TRUE]

\* better replacing the best choice only by a strictly better one
better_strict(strategy, best_choice, field, evaluation) ==
    IF strategy = "Minimize"
    THEN (IF evaluation < best_choice.value
          THEN [field |-> Some(field), value |-> evaluation, panicked |-> FALSE]
          ELSE best_choice)
    ELSE (IF evaluation > best_choice.value
          THEN [field |-> Some(field), value |-> evaluation, panicked |-> FALSE]
          ELSE best_choice)

\* the match on strategy in the loop of minimax: the new best_choice
better(strategy, best_choice, field, evaluation) ==
    IF strategy = "Minimize"
    THEN (IF evaluation <= best_choice.value
          THEN Choice(Some(field), evaluation) ELSE best_choice)
    ELSE (IF evaluation >= best_choice.value
          THEN Choice(Some(field), evaluation) ELSE best_choice)

RECURSIVE minimax(_, _, _, _)
RECURSIVE minimax_loop(_, _, _, _, _, _)

\* the for loop of minimax over the moves left, from best_choice
minimax_loop(self, b, depth, strategy, moves, best_choice) ==
    IF moves = <<>> THEN best_choice
    ELSE LET field == Head(moves)
             added == add_piece(b, field, color_from(strategy))
         IN  IF added.res.tag # "Ok" THEN Panicked
             ELSE LET child == minimax(self, added.board, depth - 1,
                                       strategy_other(strategy))
                  IN  IF child.panicked THEN Panicked
                      ELSE minimax_loop(self, b, depth, strategy, Tail(moves),
                                        better(strategy, best_choice, field, child.value))

\* minimax handing a board without a move for the side to move on to the
\* other side, one level less deep
minimax_pass_searched(self, b, depth, strategy) ==
    IF depth = 0 \/ status(b) # "InProgress"
    THEN Choice(None, eval(self, b))
    ELSE IF valid_moves(b, color_from(strategy)) = <<>>
    THEN Choice(None, minimax(self, b, depth - 1, strategy_other(strategy)).value)
    ELSE minimax_loop(self, b, depth, strategy,
                      valid_moves(b, color_from(strategy)),
                      Choice(None, worst_value(strategy)))

minimax(self, b, depth, strategy) ==
    IF depth = 0 \/ status(b) # "InProgress"
    THEN Choice(None, eval(self, b))
    ELSE minimax_loop(self, b, depth, strategy,
                      valid_moves(b, color_from(strategy)),
                      Choice(None, worst_value(strategy)))

----------------------------------------------------------------------------
(* The state machine.  board is the Board the caller owns; op, args and ret *)
(* are the call in progress ("idle" between calls), its arguments and what  *)
(* it returned; prev is the board as it was when that call was entered;    *)
(* game holds the locals of run of play.rs while a game is played.          *)

NoArgs ==
    [field |-> <<0, 0>>, color |-> "White", depth |-> 0, strategy |-> "Maximize",
     text |-> <<>>]

\* play.rs: the locals of run before its loop is entered: the opponent and
\* the depth of its search, the counter of the loop; with them the number of
\* add_piece calls that succeeded and of passes in a row (2 for 2 or more)
NoGame == [opponent |-> "Human", depth |-> 0, counter |-> 0, placed |-> 0, passes |-> 0]

\* the fields handed to move_validity and add_piece, in and out of bounds
Targets == (0..MaxCoord) \X (0..MaxCoord)

\* the cells written directly, as the tests of lib.rs write cells of a board
WriteFields == {<<0, 0>>, <<1, 0>>, <<2, 0>>, <<3, 0>>}

Init ==
    /\ board \in {new, empty}
    /\ prev = board
    /\ op = "idle"
    /\ args = NoArgs
    /\ ret = <<>>
    /\ game = NoGame

\* board[field] = Some(color), through IndexMut
SetCellUpTo(cap, field, color) ==
    /\ op = "idle"
    /\ Occupied(Put(board, field, color)) <= cap
    /\ board' = Put(board, field, color)
    /\ prev' = board'
    /\ UNCHANGED <<op, args, ret, game>>

\* board.move_validity(field, color)
MoveValidity(field, color) ==
    /\ op = "idle"
    /\ op' = "move_validity"
    /\ args' = [NoArgs EXCEPT !.field = field, !.color = color]
    /\ ret' = move_validity(board, field, color)
    /\ UNCHANGED <<board, prev, game>>

\* board.add_piece(field, color)
AddPieceUpTo(cap, field, color) ==
    /\ op = "idle"
    /\ Occupied(board) < cap
    /\ op' = "add_piece"
    /\ args' = [NoArgs EXCEPT !.field = field, !.color = color]
    /\ ret' = add_piece(board, field, color).res
    /\ board' = add_piece(board, field, color).board
    /\ prev' = board
    /\ UNCHANGED game

\* board.valid_moves(color)
ValidMoves(color) ==
    /\ op = "idle"
    /\ op' = "valid_moves"
    /\ args' = [NoArgs EXCEPT !.color = color]
    /\ ret' = valid_moves(board, color)
    /\ UNCHANGED <<board, prev, game>>

\* board.status()
Status ==
    /\ op = "idle"
    /\ op' = "status"
    /\ args' = NoArgs
    /\ ret' = status(board)
    /\ UNCHANGED <<board, prev, game>>

\* the caller drops the value returned and goes on
Return ==
    /\ op # "idle"
    /\ op' = "idle"
    /\ args' = NoArgs
    /\ ret' = <<>>
    /\ prev' = board
    /\ UNCHANGED <<board, game>>

SetCell == \E f \in WriteFields, c \in Colors : SetCellUpTo(MaxPieces, f, c)

CallMoveValidity == \E f \in Targets, c \in Colors : MoveValidity(f, c)

AddPiece == \E f \in Targets, c \in Colors : AddPieceUpTo(MaxPieces, f, c)

CallValidMoves == \E c \in Colors : ValidMoves(c)

\* bot.minimax(&board, depth, strategy) of a bot of either color
Minimax(color, depth, strategy) ==
    /\ op = "idle"
    /\ op' = "minimax"
    /\ args' = [NoArgs EXCEPT !.color = color, !.depth = depth, !.strategy = strategy]
    /\ ret' = minimax(MinimaxBot(color, depth), board, depth, strategy)
    /\ UNCHANGED <<board, prev, game>>

Next == SetCell \/ CallMoveValidity \/ AddPiece \/ CallValidMoves \/ Status \/ Return

Spec == Init /\ [][Next]_vars

\* The search: minimax called on the boards of at most BotMaxPieces pieces.

BotSetCell == \E f \in WriteFields, c \in Colors : SetCellUpTo(BotMaxPieces, f, c)

BotAddPiece == \E f \in Fields, c \in Colors : AddPieceUpTo(BotMaxPieces, f, c)

CallMinimax ==
    \E c \in Colors, d \in 0..(MaxHorizon - Occupied(board)), s \in Strategies :
        Minimax(c, d, s)

NextBot == BotSetCell \/ BotAddPiece \/ CallMinimax \/ Return

SpecBot == Init /\ [][NextBot]_vars

\* Play: add_piece called on Board::new() and on the boards that follow, with
\* any field and color; game.placed counts the calls that returned Ok.

InitPlay == Init /\ board = new

\* board.add_piece(field, color)
PlayAddPiece ==
    \E f \in Targets, c \in Colors :
        /\ op = "idle"
        /\ Occupied(board) < PlayMaxPieces
        /\ op' = "add_piece"
        /\ args' = [NoArgs EXCEPT !.field = f, !.color = c]
        /\ ret' = add_piece(board, f, c).res
        /\ board' = add_piece(board, f, c).board
        /\ prev' = board
        /\ game' = [game EXCEPT !.placed = IF ret'.tag = "Ok" THEN @ + 1 ELSE @]

NextPlay == PlayAddPiece \/ Return

SpecPlay == InitPlay /\ [][NextPlay]_vars

\* The functions of Field: to_string and from_str called on fields and on
\* strings of at most MaxLen characters, neighbors called on the 64 fields.

\* letters inside and outside 'a'..='h', digits inside and outside 1..8
Chars == {"a", "h", "i", "0", "1", "8", "9"}

RECURSIVE TextsOfLen(_)
TextsOfLen(n) ==
    IF n = 0 THEN {<<>>}
    ELSE {t \o <<c>> : t \in TextsOfLen(n - 1), c \in Chars}

Texts == UNION {TextsOfLen(n) : n \in 0..MaxLen}

\* field.to_string()
FieldToString(field) ==
    /\ op = "idle"
    /\ op' = "to_string"
    /\ args' = [NoArgs EXCEPT !.field = field]
    /\ ret' = to_string(field)
    /\ UNCHANGED <<board, prev, game>>

\* Field::from_str(text), as input.trim().parse() calls it
FromStr(text) ==
    /\ op = "idle"
    /\ op' = "from_str"
    /\ args' = [NoArgs EXCEPT !.text = text]
    /\ ret' = from_str(text)
    /\ UNCHANGED <<board, prev, game>>

\* Field::from_str(&field.to_string()): the String just returned is parsed
ParseFormatted ==
    /\ op = "to_string"
    /\ ret.tag = "Ok"
    /\ op' = "parse_formatted"
    /\ args' = [args EXCEPT !.text = ret.val]
    /\ ret' = from_str(ret.val)
    /\ UNCHANGED <<board, prev, game>>

\* field.neighbors()
Neighbors(field) ==
    /\ op = "idle"
    /\ op' = "neighbors"
    /\ args' = [NoArgs EXCEPT !.field = field]
    /\ ret' = neighbors(field)
    /\ UNCHANGED <<board, prev, game>>

CallToString == \E f \in Targets : FieldToString(f)

CallNeighbors == \E f \in Fields : Neighbors(f)

CallFromStr == \E t \in Texts : FromStr(t)

NextText == CallToString \/ CallFromStr \/ ParseFormatted \/ CallNeighbors \/ Return

SpecText == Init /\ [][NextText]_vars

\* The game: run of play.rs from Board::new() to the end of the game.  op is
\* the place in run: "while" before the test of the loop, "turn" in its body,
\* "finish" after it, "exit" at the return, "panic" after a panic.  args and
\* ret hold the player asked last, its answer and what add_piece returned.

\* in place of the result of add_piece where the loop has not called it
NoPiece == [tag |-> "Pass", val |-> <<>>, err |-> "None"]

InitGame ==
    /\ board = new
    /\ prev = board
    /\ op = "while"
    /\ args = NoArgs
    /\ ret = NoPiece
    /\ game \in {NoGame}
                \cup {[NoGame EXCEPT !.opponent = "Bot", !.depth = d] : d \in 1..GameDepth}

\* while board.status() == GameStatus::InProgress
LoopTest ==
    /\ op = "while"
    /\ op' = IF status(board) = "InProgress" THEN "turn" ELSE "finish"
    /\ UNCHANGED <<board, prev, args, ret, game>>

\* what a human may type at "Enter a field: "
Entered(b, color, free) ==
    IF free THEN TextsOfLen(2) \cup {<<l, d>> : l \in ToSet(Letters), d \in ToSet(Digits)}
    ELSE {to_string(valid_moves(b, color)[1]).val}

\* a human free to pass whatever the board
HumanTurn_may_pass(b, color, free) ==
    {None} \cup {Some(from_str(t).val) :
                    t \in {e \in Entered(b, color, free) :
                              /\ from_str(e).tag = "Ok"
                              /\ move_validity(b, from_str(e).val, color).tag = "Ok"}}

\* HumanPlayer::turn: the values it can return
HumanTurn(b, color, free) ==
    IF valid_moves(b, color) = <<>> THEN {None}
    ELSE {Some(from_str(t).val) :
             t \in {e \in Entered(b, color, free) :
                       /\ from_str(e).tag = "Ok"
                       /\ move_validity(b, from_str(e).val, color).tag = "Ok"}}

\* MinimaxBot::turn: best_move, of which best_move.0 is returned
BotTurn(b, color, depth) ==
    minimax(MinimaxBot(color, depth), b, depth, strategy_from(color))

\* counter += 1; match counter % 2: the color of the player asked
Asked == IF (game.counter + 1) % 2 = 0 THEN "Black" ELSE "White"

\* the body of the loop once the player of `color` has answered `field`
Body(color, field) ==
    /\ args' = [NoArgs EXCEPT !.color = color,
                              !.field = IF field = None THEN <<0, 0>> ELSE field[1]]
    /\ prev' = board
    /\ IF field = None
       THEN /\ op' = "while"
            /\ ret' = NoPiece
            /\ board' = board
            /\ game' = [game EXCEPT !.counter = @ + 1, !.passes = Min(@ + 1, 2)]
       ELSE LET added == add_piece(board, field[1], color)
            IN  IF ~in_bounds(field[1]) \/ added.res.tag # "Ok"
                THEN /\ op' = "panic"
                     /\ ret' = added.res
                     /\ board' = board
                     /\ game' = [game EXCEPT !.counter = @ + 1]
                ELSE /\ op' = "while"
                     /\ ret' = added.res
                     /\ board' = added.board
                     /\ game' = [game EXCEPT !.counter = @ + 1, !.placed = @ + 1,
                                             !.passes = 0]

\* an iteration in which player_white, a human, is asked
WhiteHuman ==
    /\ op = "turn"
    /\ Asked = "White"
    /\ \E field \in HumanTurn(board, "White", game.placed < FreeMoves) :
          Body("White", field)

\* an iteration in which player_black is asked and is a human
BlackHuman ==
    /\ op = "turn"
    /\ Asked = "Black"
    /\ game.opponent = "Human"
    /\ \E field \in HumanTurn(board, "Black", game.placed < FreeMoves) :
          Body("Black", field)

\* an iteration in which player_black is asked and is the bot
BlackBot ==
    /\ op = "turn"
    /\ Asked = "Black"
    /\ game.opponent = "Bot"
    /\ \E best_move \in {BotTurn(board, "Black", game.depth)} :
           IF best_move.panicked
           THEN /\ op' = "panic"
                /\ args' = [NoArgs EXCEPT !.color = "Black"]
                /\ ret' = NoPiece
                /\ prev' = board
                /\ board' = board
                /\ game' = [game EXCEPT !.counter = @ + 1]
           ELSE Body("Black", best_move.field)

\* the match on board.status() after the loop
Finish ==
    /\ op = "finish"
    /\ op' = IF status(board) \in {"WinWhite", "WinBlack", "Draw"}
             THEN "exit" ELSE "unreachable"
    /\ UNCHANGED <<board, prev, args, ret, game>>

NextGame == LoopTest \/ WhiteHuman \/ BlackHuman \/ BlackBot \/ Finish

SpecGame == InitGame /\ [][NextGame]_vars

\* the player asked returns from turn, and the loop goes on with its answer
Answered == op = "turn" /\ op' \in {"while", "panic"}

\* run is not stopped at the test of its loop or at the match after it, and
\* every player asked answers
SpecGameFair ==
    SpecGame /\ WF_vars(LoopTest) /\ WF_vars(Finish) /\ WF_op(Answered)

----------------------------------------------------------------------------
(* What the claims speak of, stated on the grid itself rather than through *)
(* line_between.                                                           *)

Sign(n) == IF n > 0 THEN 1 ELSE IF n < 0 THEN -1 ELSE 0

\* a and t are different cells of one row, column or diagonal
Aligned(t, a) ==
    /\ a # t
    /\ (a[1] = t[1] \/ a[2] = t[2] \/ AbsDiff(a[1], t[1]) = AbsDiff(a[2], t[2]))

\* the cells strictly between t and a cell a aligned with it
Between(t, a) ==
    {<<t[1] + k * Sign(a[1] - t[1]), t[2] + k * Sign(a[2] - t[2])>> :
        k \in 1..(Max(AbsDiff(a[1], t[1]), AbsDiff(a[2], t[2])) - 1)}

\* the pieces of `color` that bracket a gapless run of the other color with t
Anchors(b, t, color) ==
    {a \in Fields : /\ At(b, a) = color
                    /\ Aligned(t, a)
                    /\ \A f \in Between(t, a) : At(b, f) = other(color)}

Bracketed(b, t, color) == UNION {Between(t, a) : a \in Anchors(b, t, color)}

HasMove(b, color) ==
    \E t \in Fields : At(b, t) = "None" /\ Bracketed(b, t, color) # {}

Full(b) == \A f \in Fields : At(b, f) # "None"

Win(color) == IF color = "White" THEN "WinWhite" ELSE "WinBlack"

\* C1: on an in-bounds empty target move_validity returns exactly the cells
\* bracketed between the target and a piece of the color by a gapless run of
\* the other color, and CapturesNone exactly when there is no such cell.
C1_CapturesAreTheBracketedCells ==
    (op = "move_validity" /\ in_bounds(args.field) /\ At(board, args.field) = "None")
    => LET cells == Bracketed(board, args.field, args.color)
       IN  IF cells = {}
           THEN ret = Err("CapturesNone")
           ELSE ret.tag = "Ok" /\ ToSet(ret.val) = cells

\* a move that captures along a '/' diagonal and at least one more cell
C1_Witness ==
    /\ op = "move_validity"
    /\ ret.tag = "Ok"
    /\ Len(ret.val) >= 2
    /\ \E i \in 1..Len(ret.val) :
          /\ ret.val[i][1] + ret.val[i][2] = args.field[1] + args.field[2]
          /\ ret.val[i][1] # args.field[1]

\* C2: the list move_validity returns holds each coordinate at most once, so
\* its assertion "Captured pieces are not unique" never fails.
C2_CapturedAreUnique ==
    op = "move_validity"
    => /\ ret.tag # "Panic"
       /\ \A i, j \in 1..Len(ret.val) : ret.val[i] = ret.val[j] => i = j

\* a capture with a second piece of the color behind the anchor, in line
C2_Witness ==
    /\ op = "move_validity"
    /\ ret.tag = "Ok"
    /\ \E a \in Anchors(board, args.field, args.color), a2 \in Fields :
          /\ Between(args.field, a) # {}
          /\ At(board, a2) = args.color
          /\ Aligned(args.field, a2)
          /\ a \in Between(args.field, a2)

\* C3: when add_piece returns an error the board is as it was before the call.
C3_ErrorLeavesBoard ==
    (op = "add_piece" /\ ret.tag # "Ok")
    => /\ board = prev
       /\ ret.tag = "Err"
       /\ ret.err \in {"OutOfBounds", "Occupied", "CapturesNone"}

\* add_piece refused a move on an empty cell next to a piece
C3_Witness ==
    /\ op = "add_piece"
    /\ ret = Err("CapturesNone")
    /\ \E i \in 1..Len(neighbors(args.field)) :
          At(board, neighbors(args.field)[i]) # "None"

\* C4: when add_piece succeeds it returns what move_validity returns on the
\* board before the call, and the board differs from the one before exactly at
\* the target and the captured cells, which all hold the color now.
C4_SuccessFrame ==
    (op = "add_piece" /\ ret.tag = "Ok")
    => /\ ret = move_validity(prev, args.field, args.color)
       /\ \A f \in Fields :
             IF f = args.field \/ f \in ToSet(ret.val)
             THEN At(board, f) = args.color /\ At(prev, f) # args.color
             ELSE At(board, f) = At(prev, f)

\* Black placed a piece and captured at least two
C4_Witness ==
    /\ op = "add_piece"
    /\ ret.tag = "Ok"
    /\ args.color = "Black"
    /\ Len(ret.val) >= 2

\* C5: a target with a component >= 8 is OutOfBounds, and otherwise a target
\* whose cell is occupied is Occupied, for either color and any board.
C5_ErrorPrecedence ==
    op = "move_validity"
    => /\ (args.field[1] >= N \/ args.field[2] >= N) => ret = Err("OutOfBounds")
       /\ (args.field[1] < N /\ args.field[2] < N /\ At(board, args.field) # "None")
          => ret = Err("Occupied")

\* a target whose y alone is outside the grid, on a board with pieces
C5_Witness ==
    /\ op = "move_validity"
    /\ args.field[1] < N
    /\ args.field[2] >= N
    /\ Occupied(board) > 0
    /\ ret = Err("OutOfBounds")

\* C6: on a board that is not full and holds both colors, status is the
\* comparison of the counts when neither color has a move, and InProgress
\* when one of them has.
C6_DoublePass ==
    (/\ op = "status"
     /\ ~Full(board)
     /\ count_pieces(board, "White") > 0
     /\ count_pieces(board, "Black") > 0)
    => IF HasMove(board, "White") \/ HasMove(board, "Black")
       THEN ret = "InProgress"
       ELSE LET w == count_pieces(board, "White")
                k == count_pieces(board, "Black")
            IN  /\ w > k => ret = "WinWhite"
                /\ w < k => ret = "WinBlack"
                /\ w = k => ret = "Draw"

\* neither color can move, the board is not full and White is ahead
C6_Witness ==
    /\ op = "status"
    /\ ~Full(board)
    /\ count_pieces(board, "Black") > 0
    /\ count_pieces(board, "White") > count_pieces(board, "Black")
    /\ ~HasMove(board, "White")
    /\ ~HasMove(board, "Black")
    /\ ret = "WinWhite"

\* C7 as stated: on a board that is not full, a color with no piece loses to
\* the other color, the empty board included.
C7_Original ==
    (op = "status" /\ ~Full(board))
    => \A c \in Colors : count_pieces(board, c) = 0 => ret = Win(other(c))

\* C7 amended: on a board that is not full, status is Win(Black) when White
\* has no piece (the empty board included), and Win(White) when Black has no
\* piece and White has one.
C7_ZeroCount ==
    (op = "status" /\ ~Full(board))
    => /\ count_pieces(board, "White") = 0 => ret = "WinBlack"
       /\ (count_pieces(board, "Black") = 0 /\ count_pieces(board, "White") > 0)
          => ret = "WinWhite"

\* status of a board that holds White pieces only
C7_Witness ==
    /\ op = "status"
    /\ count_pieces(board, "Black") = 0
    /\ count_pieces(board, "White") > 0
    /\ ret = "WinWhite"

----------------------------------------------------------------------------
(* The search *)

\* the legal moves of a color, as a set
LegalMoves(b, color) ==
    {t \in Fields : At(b, t) = "None" /\ Bracketed(b, t, color) # {}}

\* the value of the board after the move, searched one level less deep by
\* the other side
ChildValue(b, field, depth, strategy) ==
    minimax(MinimaxBot(args.color, args.depth),
            add_piece(b, field, color_from(strategy)).board,
            depth - 1, strategy_other(strategy)).value

\* the place of a field in Field::all
Order(field) == field[1] * N + field[2]

\* C8: on a board in progress, at depth >= 1, minimax returns no coordinate
\* exactly when the color of the strategy has no legal move, and a coordinate
\* it returns is a legal move of that color.
C8_PassOnlyWhenForced ==
    (op = "minimax" /\ args.depth >= 1 /\ status(board) = "InProgress")
    => LET moves == LegalMoves(board, color_from(args.strategy))
       IN  /\ ~ret.panicked
           /\ (ret.field = None) <=> (moves = {})
           /\ ret.field # None => ret.field[1] \in moves

\* the only move of the side to move is answered by the capture of all its
\* pieces, and minimax still returns it
C8_Witness ==
    /\ op = "minimax"
    /\ args.depth >= 2
    /\ status(board) = "InProgress"
    /\ ret.field # None
    /\ ret.value = worst_value(args.strategy)

\* C9: at depth >= 1, on a board in progress where the side to move has a
\* legal move, minimax returns the maximum (Maximize) or minimum (Minimize) of
\* the values of the boards after each legal move, searched at depth - 1 with
\* the opposite strategy, and the last legal move of Field::all's order that
\* has this value.
C9_BestOfChildrenLastWins ==
    (/\ op = "minimax"
     /\ args.depth >= 1
     /\ status(board) = "InProgress"
     /\ LegalMoves(board, color_from(args.strategy)) # {})
    => LET moves == LegalMoves(board, color_from(args.strategy))
       IN  /\ ret.field # None
           /\ ret.field[1] \in moves
           /\ ret.value = ChildValue(board, ret.field[1], args.depth, args.strategy)
           /\ \A f \in moves :
                 LET v == ChildValue(board, f, args.depth, args.strategy)
                 IN  /\ args.strategy = "Maximize" => v <= ret.value
                     /\ args.strategy = "Minimize" => v >= ret.value
                     /\ v = ret.value => Order(f) <= Order(ret.field[1])

\* two legal moves of the best value and one of another value; the later of
\* the two is returned
C9_Witness ==
    /\ op = "minimax"
    /\ args.depth >= 1
    /\ status(board) = "InProgress"
    /\ ret.field # None
    /\ \E f, g \in LegalMoves(board, color_from(args.strategy)) :
          /\ Order(f) < Order(ret.field[1])
          /\ ChildValue(board, f, args.depth, args.strategy) = ret.value
          /\ ChildValue(board, g, args.depth, args.strategy) # ret.value

\* C10: at depth 0, or on a board whose status is not InProgress, minimax
\* returns no coordinate and i32::MAX for Win(White), i32::MIN for Win(Black),
\* 0 for Draw and else the count of White less the count of Black, whatever
\* the color of the bot.
C10_LeafValue ==
    (op = "minimax" /\ (args.depth = 0 \/ status(board) # "InProgress"))
    => /\ ~ret.panicked
       /\ ret.field = None
       /\ ret.value =
             (CASE status(board) = "WinWhite" -> I32Max
                [] status(board) = "WinBlack" -> I32Min
                [] status(board) = "Draw" -> 0
                [] OTHER -> count_pieces(board, "White") - count_pieces(board, "Black"))

\* a Black bot's search of a board Black has won by the count, not full
C10_Witness ==
    /\ op = "minimax"
    /\ args.color = "Black"
    /\ args.depth >= 1
    /\ status(board) = "WinBlack"
    /\ count_pieces(board, "White") > 0
    /\ ret = Choice(None, I32Min)

\* C11: valid_moves(color) returns exactly the fields on which a move of the
\* color succeeds, each once and in the order of Field::all (x outer, y
\* inner), leaves the board as it was, and on the starting board returns
\* (2,4), (3,5), (4,2), (5,3) for White.
C11_ValidMovesInFieldOrder ==
    (op = "valid_moves")
    => /\ ToSet(ret) = LegalMoves(board, args.color)
       /\ \A i \in 1..Len(ret) : move_validity(board, ret[i], args.color).tag = "Ok"
       /\ \A i, j \in 1..Len(ret) : i < j => Order(ret[i]) < Order(ret[j])
       /\ board = prev
       /\ (board = new /\ args.color = "White")
             => ret = << <<2, 4>>, <<3, 5>>, <<4, 2>>, <<5, 3>> >>

\* the four moves of White on the starting board
C11_Witness ==
    /\ op = "valid_moves"
    /\ args.color = "White"
    /\ board = new
    /\ Len(ret) = 4

\* C12: for each of the 64 in-bounds fields c, parsing the text that c
\* formats to gives Ok(c); (3,3) formats to "d5", (0,0) to "a8" and (7,7) to
\* "h1".
C12_RoundTrip ==
    /\ (op = "to_string" /\ in_bounds(args.field))
        => /\ ret.tag = "Ok"
           /\ (args.field = <<3, 3>> => ret.val = <<"d", "5">>)
           /\ (args.field = <<0, 0>> => ret.val = <<"a", "8">>)
           /\ (args.field = <<7, 7>> => ret.val = <<"h", "1">>)
    /\ (op = "parse_formatted" /\ in_bounds(args.field))
        => ret = Ok(args.field)

\* "d5", the text of (3,3), parsed back
C12_Witness ==
    /\ op = "parse_formatted"
    /\ args.field = <<3, 3>>
    /\ args.text = <<"d", "5">>
    /\ ret = Ok(<<3, 3>>)

\* the digits 1..8 of a row
RowDigits == {Digits[i] : i \in 2..9}

\* C13: from_str returns an error for every string whose length is not 2,
\* whose first character is not a letter of 'a'..'h' or whose second
\* character is not a digit of 1..8, and every string it accepts parses to an
\* in-bounds field.
C13_RejectsMalformed ==
    (op = "from_str")
    => /\ (\/ Len(args.text) # 2
           \/ args.text[1] \notin ToSet(Letters)
           \/ args.text[2] \notin RowDigits)
          => ret.tag = "Err"
       /\ ret.tag = "Ok" => in_bounds(ret.val)

WrongLength(t) == Len(t) # 2

UnknownLetter(t) ==
    Len(t) = 2 /\ t[1] \notin ToSet(Letters) /\ t[2] \in RowDigits

DigitOutOfRange(t) ==
    Len(t) = 2 /\ t[1] \in ToSet(Letters) /\ t[2] \in ToSet(Digits) \ RowDigits

\* C14: a string of wrong length, a two-character string with an unknown
\* letter and a valid digit, and a two-character string with a valid letter
\* and a digit out of range are each refused, and no two strings of different
\* kinds are refused with the same PlaceError variant.
C14_DistinctErrorKinds ==
    (op = "from_str")
    => /\ (WrongLength(args.text) \/ UnknownLetter(args.text)
              \/ DigitOutOfRange(args.text))
          => ret.tag = "Err"
       /\ \A t \in Texts :
             (\/ WrongLength(args.text) /\ (UnknownLetter(t) \/ DigitOutOfRange(t))
              \/ UnknownLetter(args.text) /\ DigitOutOfRange(t))
             => from_str(t).err # ret.err

\* the distance of two fields in king's moves
Chebyshev(f, g) == Max(AbsDiff(f[1], g[1]), AbsDiff(f[2], g[2]))

\* C16: for every in-bounds field c, neighbors(c) holds exactly the in-bounds
\* fields at Chebyshev distance 1 of c: at most 8 entries, never c itself, no
\* entry twice.
C16_CompassNeighbors ==
    (op = "neighbors")
    => /\ Len(ret) <= 8
       /\ ToSet(ret) = {f \in Fields : Chebyshev(f, args.field) = 1}
       /\ args.field \notin ToSet(ret)
       /\ \A i, j \in 1..Len(ret) : i # j => ret[i] # ret[j]

\* C17: at depth >= 1, on a board in progress where the color of the strategy
\* has no legal move, minimax searches no further and returns no coordinate
\* with the worst value of the strategy: i32::MAX for Black (Minimize),
\* i32::MIN for White (Maximize).
C17_ForcedPassValue ==
    (/\ op = "minimax"
     /\ args.depth >= 1
     /\ status(board) = "InProgress"
     /\ ~HasMove(board, color_from(args.strategy)))
    => ret = Choice(None, IF args.strategy = "Minimize" THEN I32Max ELSE I32Min)

\* Black searched at depth 2 or more on a board where only White can move
C17_Witness ==
    /\ op = "minimax"
    /\ args.depth >= 2
    /\ args.strategy = "Minimize"
    /\ status(board) = "InProgress"
    /\ ~HasMove(board, "Black")
    /\ HasMove(board, "White")
    /\ ret = Choice(None, I32Max)

\* C20: on the boards reached from Board::new() by add_piece calls, a cell
\* that holds a piece before a call holds one after it, the number of pieces
\* is 4 plus the number of calls that succeeded, and a successful
\* add_piece(target, color) capturing k cells has k >= 1, raises the count of
\* the color by k + 1 and lowers the count of the other color by k.
C20_PiecesOnlyGrow ==
    /\ Occupied(board) = 4 + game.placed
    /\ \A f \in Fields : At(prev, f) # "None" => At(board, f) # "None"
    /\ (op = "add_piece" /\ ret.tag = "Ok")
        => LET k == Len(ret.val)
           IN  /\ k >= 1
               /\ count_pieces(board, args.color)
                     = count_pieces(prev, args.color) + k + 1
               /\ count_pieces(board, other(args.color))
                     = count_pieces(prev, other(args.color)) - k

\* a third successful call, capturing two cells
C20_Witness ==
    /\ op = "add_piece"
    /\ ret.tag = "Ok"
    /\ Len(ret.val) = 2
    /\ game.placed = 3
    /\ Occupied(board) = 7

\* C15: whenever the loop of a game begun with Board::new() asks a player to
\* move, Board::turn of the board is the color of that player.
C15_TurnIsPlayerAsked ==
    (op = "turn") => turn(board) = Asked

\* C18: no legality error surfaces in a game: the search of the bot never
\* panics on an add_piece of its own, and the field a player answers (a human
\* after validation, the bot by its search) is accepted by add_piece for the
\* color of that player, so run never panics with "Failed to add piece".
C18_NoLegalityError ==
    /\ op # "panic"
    /\ (op = "while" /\ game.counter > 0 /\ game.passes = 0)
        => /\ ret.tag = "Ok"
           /\ move_validity(prev, args.field, args.color).tag = "Ok"
           /\ board = add_piece(prev, args.field, args.color).board

\* the bot has answered, for the tenth piece placed or a later one, a field
\* that add_piece accepted
C18_Witness ==
    /\ op = "while"
    /\ game.opponent = "Bot"
    /\ args.color = "Black"
    /\ game.passes = 0
    /\ game.placed >= 10
    /\ ret.tag = "Ok"

\* what holds of run between two iterations of its loop
GameSafe ==
    /\ game.passes <= 1
    /\ game.placed <= 60
    /\ op \notin {"unreachable", "panic"}
    /\ (op = "while" /\ game.counter > 0)
        => IF game.passes = 0
           THEN Occupied(board) = Occupied(prev) + 1
           ELSE board = prev /\ HasMove(board, other(args.color))
    /\ (op = "exit") => status(board) \in {"WinWhite", "WinBlack", "Draw"}

\* C19: every game begun with Board::new() ends, the players answering when
\* asked: the loop never passes twice in a row (a pass leaves the board as it
\* was, with a legal move for the other color), every other iteration places
\* exactly one piece, at most 60 pieces are placed, and run reaches its
\* return with a status of Win or Draw, never its unreachable!().
C19_GameTerminates == [](GameSafe) /\ <>(op = "exit")

\* a game that has ended after a pass
C19_Witness ==
    /\ op = "exit"
    /\ game.counter > game.placed
    /\ game.placed > FreeMoves

====
